---- MODULE Spec2Model ----
(***************************************************************************)
(* GnuRadioModule (wishful_module_gnuradio/module_gnuradio.py): the        *)
(* lifecycle supervisor of one GNURadio radio program.  The object's       *)
(* fields are the variables gr_*, ctrl_socket; the operating system the    *)
(* module drives (the artifact directory, the child processes, the log     *)
(* streams, the XML-RPC proxies) is the remaining state.  Every public     *)
(* operation is one atomic action: callers serialize them.                 *)
(***************************************************************************)
EXTENDS Naturals, FiniteSets, Sequences, TLC

\* ------------------------------------------------------------------ bounds
MaxProcs == 2       \* child processes spawned in one run
MaxStreams == 2     \* pairs of log streams opened in one run

\* ------------------------------------------------------------ value domains
Names == {"A", "B"}                \* program_name
None == "None"                     \* Python's None
ProgramTypes == {"grc", "py", "xyz"}
PortTypes == {"int", "str"}        \* program_port, by what "%d" does with it
Keys == {"k1", "k2"}               \* names of remote variables
NoProc == 0                        \* gr_process is None
NoIO == 0                          \* gr_process_io is None
Pids == 1..MaxProcs
StreamIds == 1..MaxStreams

RadioProgramState == {"INACTIVE", "RUNNING", "PAUSED", "STOPPED"}

VARIABLES
    gr_radio_programs_conf,  \* name -> RadioProgramConf, a function on the registered names
    gr_exec_name,            \* name of the program in execution/idle, or None
    gr_state,                \* a RadioProgramState
    gr_process,              \* pid of the Popen handle held, or NoProc
    gr_process_io,           \* id of the pair of log streams held, or NoIO
    ctrl_socket,             \* name of the program the ServerProxy is bound to, or None
    files,                   \* names n whose file <programs_path>/n.py exists
    spawned,                 \* number of Popen handles created so far
    kills,                   \* pid -> number of kill() calls on that handle
    owner,                   \* pid -> program the process was started for
    opened,                  \* number of log-stream pairs opened so far
    closed,                  \* ids of the log-stream pairs close() was called on
    proxies,                 \* ServerProxy objects created since ctrl_socket was last set to None
    remote_set,              \* remote variables set on the current child so far
    lastCall,                \* the public operation performed last, and its outcome
    roundtrip                \* progress of the call sequence activate / pause / activate

vars == <<gr_radio_programs_conf, gr_exec_name, gr_state, gr_process, gr_process_io,
          ctrl_socket, files, spawned, kills, owner, opened, closed, proxies,
          remote_set, lastCall, roundtrip>>

\* The object and its environment as one record, with the scratch fields of a
\* call in progress: ret (the value returned, "raise" for an exception that
\* leaves the operation), compiled (the converter was called), keys (remote keys served),
\* compile_failed (the flowgraph did not parse or grcc wrote no output), asked and
\* failing (the keys of a bulk call, and those whose remote call raises),
\* popen_failed (the launch was reached and raised).
Cur ==
    [conf |-> gr_radio_programs_conf, exec_name |-> gr_exec_name, state |-> gr_state,
     process |-> gr_process, process_io |-> gr_process_io, ctrl |-> ctrl_socket,
     files |-> files, spawned |-> spawned, kills |-> kills, owner |-> owner,
     opened |-> opened, closed |-> closed, proxies |-> proxies,
     remote_set |-> remote_set,
     ret |-> None, compiled |-> FALSE, keys |-> {},
     compile_failed |-> FALSE, asked |-> {}, failing |-> {}, popen_failed |-> FALSE]

RadioProgramConf(name, port) == [name |-> name, port |-> port, path |-> name]

\* ---------------------------------------------------------------- helpers

\* exec_program whose except branch leaves gr_exec_name as the try set it.
exec_program_keeps_name(s, name, popen_ok) ==
    LET s1 == IF s.process_io = NoIO
              THEN [s EXCEPT !.process_io = s.opened + 1, !.opened = s.opened + 1]
              ELSE s
        s2 == IF s1.process # NoProc
              THEN [s1 EXCEPT !.kills[s1.process] = @ + 1, !.process = NoProc]
              ELSE s1
        pid == s2.spawned + 1
    IN  IF name \in DOMAIN s2.conf /\ popen_ok
        THEN [s2 EXCEPT !.exec_name = name, !.process = pid, !.spawned = pid,
                        !.owner[pid] = name, !.remote_set = {},
                        !.state = "RUNNING", !.ret = "True"]
        ELSE [s2 EXCEPT !.process_io = NoIO, !.process = NoProc,
                        !.exec_name = name, !.ret = "False", !.popen_failed = TRUE]

\* _exec_program: open the log streams if none are held, kill a held handle,
\* then Popen; popen_ok is whether subprocess.Popen returns a handle.  The
\* lookup of the registration is inside the try, like Popen.
exec_program(s, name, popen_ok) ==
    LET s1 == IF s.process_io = NoIO
              THEN [s EXCEPT !.process_io = s.opened + 1, !.opened = s.opened + 1]
              ELSE s
        s2 == IF s1.process # NoProc
              THEN [s1 EXCEPT !.kills[s1.process] = @ + 1, !.process = NoProc]
              ELSE s1
        pid == s2.spawned + 1
    IN  IF name \in DOMAIN s2.conf /\ popen_ok
        THEN [s2 EXCEPT !.exec_name = name, !.process = pid, !.spawned = pid,
                        !.owner[pid] = name, !.remote_set = {},
                        !.state = "RUNNING", !.ret = "True"]
        ELSE [s2 EXCEPT !.process_io = NoIO, !.process = NoProc,
                        !.exec_name = None, !.ret = "False", !.popen_failed = TRUE]

\* remove_program forgetting the artifact file: only the dict entry goes.
remove_program_conf_only(s, name) ==
    IF name \notin DOMAIN s.conf
    THEN [s EXCEPT !.ret = "raise"]
    ELSE [s EXCEPT !.conf = [n \in (DOMAIN s.conf) \ {name} |-> s.conf[n]]]

\* _remove_program: a name that is not registered is logged and then looked up
\* all the same, which raises KeyError.
remove_program(s, name) ==
    IF name \notin DOMAIN s.conf
    THEN [s EXCEPT !.ret = "raise"]
    ELSE [s EXCEPT !.files = @ \ {s.conf[name].path},
                   !.conf = [n \in (DOMAIN s.conf) \ {name} |-> s.conf[n]]]

\* "self.gr_process_io is dict" compares the held object with the type dict:
\* it is false for None and for every dict instance.
IoIsDictType(io) == FALSE

\* close_gr_process forgetting to kill the child.
close_gr_process_no_kill(s) == [s EXCEPT !.ctrl = None, !.proxies = 0]

\* _close_gr_process: kill the held handle (it stays held), close the streams
\* when the test on their type passes, drop the proxy.
close_gr_process(s) ==
    LET s1 == IF s.process # NoProc
              THEN [s EXCEPT !.kills[s.process] = @ + 1]
              ELSE s
        s2 == IF s1.process_io # NoIO /\ IoIsDictType(s1.process_io)
              THEN [s1 EXCEPT !.closed = @ \cup {s1.process_io}]
              ELSE s1
    IN  [s2 EXCEPT !.ctrl = None, !.proxies = 0]

\* _convert_grc_to_python: xml_ok is whether the flowgraph parses and has a
\* first block parameter; grcc_ok is whether grcc writes <name>.py.  The file
\* read back and then removed is the one at the artifact's own path.
convert_grc_to_python(s, name, xml_ok, grcc_ok) ==
    IF ~xml_ok
    THEN [s EXCEPT !.compiled = TRUE, !.compile_failed = TRUE, !.ret = "raise"]
    ELSE LET s1 == [s EXCEPT !.compiled = TRUE, !.compile_failed = ~grcc_ok,
                             !.files = IF grcc_ok THEN @ \cup {name} ELSE @]
         IN  IF name \notin s1.files
             THEN [s1 EXCEPT !.ret = "raise"]
             ELSE [s1 EXCEPT !.files = @ \ {name}]

\* _add_program_to_repo: write <name>.py; _build_radio_program_dict returns at once.
add_program_to_repo(s, name) == [s EXCEPT !.files = @ \cup {name}]

\* init_proxy without the test for an existing proxy.
init_proxy_no_reuse(s, name) ==
    IF name \in DOMAIN s.conf /\ s.conf[name].port = "int"
    THEN [s EXCEPT !.ctrl = name, !.proxies = @ + 1]
    ELSE s

\* _init_proxy: reuse a proxy that exists; the lookup of an unregistered name
\* and the formatting of the URL with %d for a port that is no number raise,
\* which is caught and leaves no proxy.
init_proxy(s, name) ==
    IF s.ctrl # None
    THEN s
    ELSE IF name \in DOMAIN s.conf /\ s.conf[name].port = "int"
         THEN [s EXCEPT !.ctrl = name, !.proxies = @ + 1]
         ELSE s

\* ------------------------------------------------------- public operations

\* get_running_radio_program without the test on the state.
get_running_radio_program_any_state(s) == s.exec_name

get_running_radio_program(s) ==
    IF s.state = "RUNNING" THEN s.exec_name ELSE None

\* set_active in state INACTIVE: convert, register, launch.
start_program(s, name, type, port, xml_ok, grcc_ok, popen_ok) ==
    IF type \notin {"grc", "py"}
    THEN s
    ELSE LET c == IF type = "grc"
                  THEN convert_grc_to_python(s, name, xml_ok, grcc_ok)
                  ELSE s
         IN  IF c.ret = "raise"
             THEN c
             ELSE LET r == IF name \notin DOMAIN c.conf
                           THEN [add_program_to_repo(c, name) EXCEPT
                                   !.conf = c.conf @@ (name :> RadioProgramConf(name, port))]
                           ELSE c
                  IN  exec_program(r, name, popen_ok)

\* set_active taking RUNNING for INACTIVE: a second activation launches again.
set_active_restarts(s, name, type, port, xml_ok, grcc_ok, popen_ok) ==
    IF s.state \in {"INACTIVE", "RUNNING"}
    THEN start_program(s, name, type, port, xml_ok, grcc_ok, popen_ok)
    ELSE IF s.state = "PAUSED" /\ s.exec_name = name
         THEN [init_proxy(s, s.exec_name) EXCEPT !.state = "RUNNING"]
         ELSE s

\* set_active waking up whatever is paused, without comparing the names.
set_active_wakes_any(s, name, type, port, xml_ok, grcc_ok, popen_ok) ==
    IF s.state = "INACTIVE"
    THEN start_program(s, name, type, port, xml_ok, grcc_ok, popen_ok)
    ELSE IF s.state = "PAUSED"
         THEN [init_proxy(s, s.exec_name) EXCEPT !.state = "RUNNING"]
         ELSE s

set_active(s, name, type, port, xml_ok, grcc_ok, popen_ok) ==
    IF s.state = "INACTIVE"
    THEN start_program(s, name, type, port, xml_ok, grcc_ok, popen_ok)
    ELSE IF s.state = "PAUSED" /\ s.exec_name = name
         THEN [init_proxy(s, s.exec_name) EXCEPT !.state = "RUNNING"]
         ELSE s

\* set_inactive leaving the state STOPPED after a stop.
set_inactive_stopped(s, name, pause, rpc) ==
    IF name # s.exec_name
    THEN s
    ELSE IF s.state \in {"RUNNING", "PAUSED"}
         THEN IF pause
              THEN IF s.ctrl = None \/ rpc # "ok"
                   THEN [s EXCEPT !.ret = "raise"]
                   ELSE [s EXCEPT !.state = "PAUSED"]
              ELSE remove_program(close_gr_process([s EXCEPT !.state = "STOPPED"]), name)
         ELSE s

\* set_inactive without the comparison with gr_exec_name.
set_inactive_any_name(s, name, pause, rpc) ==
    IF s.state \in {"RUNNING", "PAUSED"}
    THEN IF pause
         THEN IF s.ctrl = None \/ rpc # "ok"
              THEN [s EXCEPT !.ret = "raise"]
              ELSE [s EXCEPT !.state = "PAUSED"]
         ELSE remove_program(close_gr_process([s EXCEPT !.state = "INACTIVE"]), name)
    ELSE s

\* rpc is how far the stop()/wait() pair gets: "ok", "stop" (stop raises) or
\* "wait" (wait raises).  With no proxy, self.ctrl_socket.stop raises.
set_inactive(s, name, pause, rpc) ==
    IF name # s.exec_name
    THEN s
    ELSE IF s.state \in {"RUNNING", "PAUSED"}
         THEN IF pause
              THEN IF s.ctrl = None \/ rpc # "ok"
                   THEN [s EXCEPT !.ret = "raise"]
                   ELSE [s EXCEPT !.state = "PAUSED"]
              ELSE remove_program(close_gr_process([s EXCEPT !.state = "INACTIVE"]), name)
         ELSE s

\* gnuradio_set_vars with one try around the loop: a failing key aborts the batch.
gnuradio_set_vars_aborts(s, ks, failing) ==
    IF s.state \in {"RUNNING", "PAUSED"}
    THEN LET p == init_proxy(s, s.exec_name)
             done == IF p.ctrl = None \/ failing # {} THEN {} ELSE ks
         IN  [p EXCEPT !.remote_set = @ \cup done, !.keys = done,
                       !.asked = ks, !.failing = failing]
    ELSE [s EXCEPT !.asked = ks, !.failing = failing]

\* failing are the keys whose remote set_<k> raises; with no proxy every
\* getattr on None raises.  Each failure is caught in the loop.
gnuradio_set_vars(s, ks, failing) ==
    IF s.state \in {"RUNNING", "PAUSED"}
    THEN LET p == init_proxy(s, s.exec_name)
             done == IF p.ctrl = None THEN {} ELSE ks \ failing
         IN  [p EXCEPT !.remote_set = @ \cup done, !.keys = done,
                       !.asked = ks, !.failing = failing]
    ELSE [s EXCEPT !.asked = ks, !.failing = failing]

gnuradio_get_vars(s, ks, failing) ==
    IF s.state \in {"RUNNING", "PAUSED"}
    THEN LET p == init_proxy(s, s.exec_name)
             rv == IF p.ctrl = None THEN {} ELSE ks \ failing
         IN  [p EXCEPT !.ret = "dict", !.keys = rv,
                       !.asked = ks, !.failing = failing]
    ELSE [s EXCEPT !.asked = ks, !.failing = failing]

\* ------------------------------------------------------ the call sequence

\* Observer of the sequence "activate name from INACTIVE with the start
\* succeeding; deactivate name with pause; activate name", nothing between.
Observe(rt, pre, op, name, pause, post) ==
    IF op = "set_active" /\ pre.state = "INACTIVE" /\ post.ret = "True"
    THEN [phase |-> 1, name |-> name, pid |-> post.process, base |-> pre.spawned]
    ELSE IF rt.phase = 1 /\ op = "set_inactive" /\ name = rt.name /\ pause
         THEN [rt EXCEPT !.phase = 2]
         ELSE IF rt.phase = 2 /\ op = "set_active" /\ name = rt.name
              THEN [rt EXCEPT !.phase = 3]
              ELSE [phase |-> 0, name |-> None, pid |-> NoProc, base |-> 0]

Commit(op, name, pause, t) ==
    /\ gr_radio_programs_conf' = t.conf
    /\ gr_exec_name' = t.exec_name
    /\ gr_state' = t.state
    /\ gr_process' = t.process
    /\ gr_process_io' = t.process_io
    /\ ctrl_socket' = t.ctrl
    /\ files' = t.files
    /\ spawned' = t.spawned
    /\ kills' = t.kills
    /\ owner' = t.owner
    /\ opened' = t.opened
    /\ closed' = t.closed
    /\ proxies' = t.proxies
    /\ remote_set' = t.remote_set
    /\ lastCall' = [op |-> op, name |-> name, pause |-> pause, ret |-> t.ret,
                    compiled |-> t.compiled, keys |-> t.keys, pre |-> gr_state,
                    compile_failed |-> t.compile_failed, asked |-> t.asked,
                    failing |-> t.failing, popen_failed |-> t.popen_failed]
    /\ roundtrip' = Observe(roundtrip, Cur, op, name, pause, t)

\* ----------------------------------------------------------------- actions

SetActive ==
    \E name \in Names, type \in ProgramTypes, port \in PortTypes,
       xml_ok \in BOOLEAN, grcc_ok \in BOOLEAN, popen_ok \in BOOLEAN :
        /\ type # "grc" => (xml_ok /\ grcc_ok)
        /\ gr_state # "INACTIVE" => (xml_ok /\ grcc_ok /\ popen_ok)
        /\ popen_ok => spawned < MaxProcs \/ gr_state # "INACTIVE"
        /\ gr_process_io = NoIO => opened < MaxStreams \/ gr_state # "INACTIVE"
        /\ Commit("set_active", name, FALSE,
                  set_active(Cur, name, type, port, xml_ok, grcc_ok, popen_ok))

SetInactive ==
    \E name \in Names, pause \in BOOLEAN, rpc \in {"ok", "stop", "wait"} :
        /\ ~pause => rpc = "ok"
        /\ Commit("set_inactive", name, pause, set_inactive(Cur, name, pause, rpc))

GetRunningRadioProgram ==
    Commit("get_running_radio_program", None, FALSE,
           [Cur EXCEPT !.ret = get_running_radio_program(Cur)])

GnuradioSetVars ==
    \E ks \in SUBSET Keys : \E failing \in SUBSET ks :
        Commit("gnuradio_set_vars", None, FALSE, gnuradio_set_vars(Cur, ks, failing))

GnuradioGetVars ==
    \E ks \in SUBSET Keys : \E failing \in SUBSET ks :
        Commit("gnuradio_get_vars", None, FALSE, gnuradio_get_vars(Cur, ks, failing))

Init ==
    /\ gr_radio_programs_conf = <<>>
    /\ gr_exec_name = None
    /\ gr_state = "INACTIVE"
    /\ gr_process = NoProc
    /\ gr_process_io = NoIO
    /\ ctrl_socket = None
    /\ files = {}
    /\ spawned = 0
    /\ kills = [p \in Pids |-> 0]
    /\ owner = [p \in Pids |-> None]
    /\ opened = 0
    /\ closed = {}
    /\ proxies = 0
    /\ remote_set = {}
    /\ lastCall = [op |-> "init", name |-> None, pause |-> FALSE, ret |-> None,
                   compiled |-> FALSE, keys |-> {}, pre |-> "INACTIVE",
                   compile_failed |-> FALSE, asked |-> {}, failing |-> {},
                   popen_failed |-> FALSE]
    /\ roundtrip = [phase |-> 0, name |-> None, pid |-> NoProc, base |-> 0]

Next ==
    \/ SetActive
    \/ SetInactive
    \/ GetRunningRadioProgram
    \/ GnuradioSetVars
    \/ GnuradioGetVars

Spec == Init /\ [][Next]_vars

\* _remove_program applied on its own to any name, in the state in which
\* set_inactive calls it (gr_state already INACTIVE).
RemoveProgram ==
    \E name \in Names :
        /\ gr_state = "INACTIVE"
        /\ Commit("remove_program", name, FALSE, remove_program(Cur, name))

NextRemove ==
    \/ Next
    \/ RemoveProgram

SpecRemove == Init /\ [][NextRemove]_vars

\* ------------------------------------------------------------------ claims

\* Children spawned so far on which kill() was never called.
Live == {p \in 1..spawned : kills[p] = 0}

\* The session fields a rejected call must leave alone.
Session == <<gr_state, gr_exec_name, gr_process, ctrl_socket, gr_radio_programs_conf>>

C2_PauseAfterActivate ==
    roundtrip.phase = 2 =>
        /\ gr_state = "PAUSED"
        /\ kills[roundtrip.pid] = 0
        /\ roundtrip.name \in DOMAIN gr_radio_programs_conf
        /\ roundtrip.name \in files
        /\ get_running_radio_program(Cur) = None

\* C3: deactivate(name, pause = False) in RUNNING or PAUSED with name the
\* program in execution ends INACTIVE, with kill() called on the child, name
\* no longer registered, its file gone, and get_running_radio_program None.
C3_Stop ==
    [][ ( /\ lastCall'.op = "set_inactive"
          /\ ~lastCall'.pause
          /\ gr_state \in {"RUNNING", "PAUSED"}
          /\ lastCall'.name = gr_exec_name )
        => ( /\ gr_state' = "INACTIVE"
             /\ gr_process # NoProc
             /\ kills'[gr_process] = kills[gr_process] + 1
             /\ gr_exec_name \notin DOMAIN gr_radio_programs_conf'
             /\ gr_exec_name \notin files'
             /\ get_running_radio_program(Cur)' = None
             /\ lastCall'.ret = None ) ]_vars

C3_Witness ==
    /\ lastCall.op = "set_inactive"
    /\ ~lastCall.pause
    /\ lastCall.pre = "PAUSED"
    /\ gr_state = "INACTIVE"
    /\ lastCall.name \notin DOMAIN gr_radio_programs_conf

\* C4: at most one spawned child is un-killed; it is the handle held, it was
\* started for the program in execution, and the state is then RUNNING or
\* PAUSED (so no un-killed child exists in INACTIVE).
C4_SingleActive ==
    /\ Cardinality(Live) <= 1
    /\ \A p \in Live :
        /\ p = gr_process
        /\ owner[p] = gr_exec_name
        /\ gr_state \in {"RUNNING", "PAUSED"}

C4_Witness ==
    /\ spawned = 2
    /\ Live = {2}
    /\ owner[1] # owner[2]
    /\ gr_state = "PAUSED"

\* C5: kill() is called exactly once on every handle that is no longer the
\* current child, and never more than once on any handle.
C5_KilledExactlyOnce ==
    \A p \in 1..spawned :
        /\ kills[p] <= 1
        /\ (p # gr_process \/ gr_state = "INACTIVE") => kills[p] = 1

\* C6: deactivate(B, pause) while the program in execution is A # B changes
\* neither the state, the program in execution, the handle, the proxy nor the
\* registrations, and kills nothing.
C6_ForeignDeactivate ==
    [][ ( /\ lastCall'.op = "set_inactive"
          /\ gr_exec_name \in Names
          /\ lastCall'.name # gr_exec_name )
        => ( /\ UNCHANGED Session
             /\ UNCHANGED <<kills, files, spawned>>
             /\ lastCall'.ret = None ) ]_vars

C6_Witness ==
    /\ lastCall.op = "set_inactive"
    /\ lastCall.pause
    /\ gr_exec_name \in Names
    /\ lastCall.name # gr_exec_name
    /\ gr_state = "RUNNING"
    /\ lastCall.pre = "RUNNING"

\* C7: activate in RUNNING (any name), or in PAUSED with another name than the
\* program in execution, changes nothing: no conversion, no spawn, no kill.
C7_ActivateRejected ==
    [][ ( /\ lastCall'.op = "set_active"
          /\ \/ gr_state = "RUNNING"
             \/ gr_state = "PAUSED" /\ lastCall'.name # gr_exec_name )
        => ( /\ UNCHANGED Session
             /\ UNCHANGED <<kills, files, spawned, gr_process_io, opened>>
             /\ ~lastCall'.compiled
             /\ lastCall'.ret = None ) ]_vars

C7_Witness ==
    /\ lastCall.op = "set_active"
    /\ lastCall.pre = "PAUSED"
    /\ gr_state = "PAUSED"
    /\ lastCall.name # gr_exec_name

\* C8: get_running_radio_program returns a name exactly in RUNNING; the name
\* is then the program in execution, registered, with its un-killed child held.
C8_QueryActive ==
    LET r == get_running_radio_program(Cur)
    IN  /\ (r # None) <=> (gr_state = "RUNNING")
        /\ r # None =>
            /\ r = gr_exec_name
            /\ r \in DOMAIN gr_radio_programs_conf
            /\ gr_process \in Live
            /\ owner[gr_process] = r

C8_Witness ==
    /\ lastCall.op = "get_running_radio_program"
    /\ lastCall.ret = None
    /\ gr_state = "PAUSED"
    /\ gr_exec_name \in Names

\* C9: a process handle is held only in RUNNING or PAUSED.
C9_HandleOnlyWhileActive ==
    gr_process # NoProc => gr_state \in {"RUNNING", "PAUSED"}

\* C10: a proxy is held only in RUNNING or PAUSED, and at most one proxy is
\* created between two assignments of None to ctrl_socket.
C10_ChannelOnlyWhileActive ==
    /\ ctrl_socket # None => gr_state \in {"RUNNING", "PAUSED"}
    /\ proxies <= 1

C10_Witness ==
    /\ lastCall.op = "set_active"
    /\ lastCall.pre = "PAUSED"
    /\ gr_state = "RUNNING"
    /\ ctrl_socket # None
    /\ proxies = 1
    /\ spawned = 2

\* C11: an activate from INACTIVE whose launch raises returns False and leaves
\* the state INACTIVE, no handle held, no program in execution, and the name
\* registered.
C11_StartFailure ==
    (lastCall.op = "set_active" /\ lastCall.popen_failed) =>
        /\ lastCall.pre = "INACTIVE"
        /\ lastCall.ret = "False"
        /\ gr_state = "INACTIVE"
        /\ gr_process = NoProc
        /\ gr_exec_name = None
        /\ lastCall.name \in DOMAIN gr_radio_programs_conf

C11_Witness ==
    /\ lastCall.op = "set_active"
    /\ lastCall.popen_failed
    /\ lastCall.ret = "False"
    /\ spawned = 1
    /\ kills[1] = 2
    /\ gr_process = NoProc
    /\ lastCall.name \in DOMAIN gr_radio_programs_conf

\* C12: an activate from INACTIVE of type grc whose conversion fails spawns
\* nothing, registers nothing, leaves the state INACTIVE and does not return
\* success.
C12_CompileFailure ==
    [][ ( /\ lastCall'.op = "set_active"
          /\ gr_state = "INACTIVE"
          /\ lastCall'.compile_failed )
        => ( /\ spawned' = spawned
             /\ gr_radio_programs_conf' = gr_radio_programs_conf
             /\ gr_state' = "INACTIVE"
             /\ lastCall'.ret # "True" ) ]_vars

\* C13: no public operation ends with an exception leaving it.
C13_NoException ==
    lastCall.ret # "raise"

\* C14: in RUNNING or PAUSED a bulk set applies, and a bulk get returns,
\* exactly the asked keys whose remote call does not raise (none when no proxy
\* could be made), keeping what was set before; in INACTIVE no remote call is
\* made and the get returns None; the state, the program in execution, the
\* handle and the registrations never change.
C14_BulkParameters ==
    [][ lastCall'.op \in {"gnuradio_set_vars", "gnuradio_get_vars"} =>
        /\ UNCHANGED <<gr_state, gr_exec_name, gr_process, gr_radio_programs_conf>>
        /\ UNCHANGED <<files, spawned, kills>>
        /\ lastCall'.ret # "raise"
        /\ gr_state \in {"RUNNING", "PAUSED"} =>
            /\ lastCall'.keys = IF ctrl_socket' = None
                                THEN {}
                                ELSE lastCall'.asked \ lastCall'.failing
            /\ lastCall'.op = "gnuradio_set_vars" =>
                    remote_set' = remote_set \cup lastCall'.keys
            /\ lastCall'.op = "gnuradio_get_vars" =>
                    lastCall'.ret = "dict" /\ remote_set' = remote_set
        /\ gr_state = "INACTIVE" =>
            /\ lastCall'.keys = {}
            /\ lastCall'.ret = None
            /\ UNCHANGED <<remote_set, ctrl_socket, proxies>> ]_vars

C14_Witness ==
    /\ lastCall.op = "gnuradio_set_vars"
    /\ lastCall.asked = Keys
    /\ lastCall.failing = {"k2"}
    /\ lastCall.keys = {"k1"}
    /\ remote_set = {"k1"}
    /\ gr_state = "PAUSED"

\* C15: _remove_program on a name that is not registered returns without an
\* error and changes neither the registrations nor the files.
C15_IdempotentRemoval ==
    [][ ( /\ lastCall'.op = "remove_program"
          /\ lastCall'.name \notin DOMAIN gr_radio_programs_conf )
        => ( /\ lastCall'.ret = None
             /\ UNCHANGED <<gr_radio_programs_conf, files>> ) ]_vars

\* C16: after a stop of the program in execution from RUNNING or PAUSED the
\* session holds no log stream that was not closed.
C16_StreamsClosedOnStop ==
    ( /\ lastCall.op = "set_inactive"
      /\ ~lastCall.pause
      /\ lastCall.pre \in {"RUNNING", "PAUSED"}
      /\ gr_state = "INACTIVE" )
    => (gr_process_io = NoIO \/ gr_process_io \in closed)

\* C17: an activate from INACTIVE of a name that is registered (from a start
\* that failed) with its file in place, which reaches the launch, launches
\* with the file still in place.
C17_RetryKeepsArtifact ==
    [][ ( /\ lastCall'.op = "set_active"
          /\ gr_state = "INACTIVE"
          /\ lastCall'.name \in DOMAIN gr_radio_programs_conf
          /\ lastCall'.name \in files
          /\ lastCall'.ret \in {"True", "False"} )
        => lastCall'.name \in files' ]_vars

\* C18: the state starts INACTIVE, is never STOPPED, and changes only by
\* INACTIVE -> RUNNING, RUNNING -> PAUSED, PAUSED -> RUNNING,
\* RUNNING -> INACTIVE or PAUSED -> INACTIVE.
C18_Transitions ==
    /\ gr_state = "INACTIVE"
    /\ [][ /\ gr_state' # "STOPPED"
           /\ gr_state' # gr_state =>
                <<gr_state, gr_state'>> \in
                    { <<"INACTIVE", "RUNNING">>, <<"RUNNING", "PAUSED">>,
                      <<"PAUSED", "RUNNING">>, <<"RUNNING", "INACTIVE">>,
                      <<"PAUSED", "INACTIVE">> } ]_vars

C18_Witness ==
    /\ lastCall.op = "set_inactive"
    /\ lastCall.pre = "PAUSED"
    /\ gr_state = "INACTIVE"
    /\ spawned = 2

\* C19: log streams are opened again only after the ones opened before were
\* closed: at most one opened pair was never closed.
C19_StreamsOpenedOnce ==
    opened <= Cardinality(closed) + 1

\* C20: in INACTIVE no program is named as in execution; in RUNNING and
\* PAUSED the program in execution is registered.
C20_ActiveNameBound ==
    /\ gr_state = "INACTIVE" => gr_exec_name = None
    /\ gr_state \in {"RUNNING", "PAUSED"} =>
            gr_exec_name \in DOMAIN gr_radio_programs_conf

====
